---- MODULE Spec2Model ----
(***************************************************************************)
(* Model of timesketch/lib/analyzers/interface.py: the analyzer interface  *)
(* (Event, Sketch, BaseAnalyzer and the flush decorator) together with the *)
(* collaborators it drives: the Elasticsearch datastore (bulk queue,       *)
(* label scripts, refresh, streaming search) and the relational store      *)
(* (Event, Comment and View rows).                                         *)
(***************************************************************************)
EXTENDS Integers, Sequences, FiniteSets, TLC

VARIABLES
    sketch_id,      \* BaseAnalyzer.sketch_id of the instance (0: unset)
    pc,             \* position of the run_wrapper() call
    func_return,    \* wrapper's local func_return, once run() has returned
    wrapper_result, \* what run_wrapper() handed to its caller
    exc,            \* exception that left run_wrapper()
    stored,         \* the index: documents as applied by bulk requests
    searchable,     \* the index as seen by searches (as of the last refresh)
    import_events,  \* datastore.import_events: the queued bulk updates
    import_counter, \* datastore.import_counter['events']
    written,        \* the index with every update given to import_event applied
    flush_calls,    \* number of flush_queued_events() calls (spy)
    gen,            \* the generator object of the latest event_stream() call
    handles,        \* the Event objects the analyzer holds
    built,          \* outcome of the latest direct Event(...) construction
    db_events,      \* relational Event rows, by (sketch, searchindex, doc id)
    db_comments,    \* relational Comment rows, in commit order
    views,          \* relational View rows, in commit order
    last,           \* the latest Event/Sketch call of run() and its outcome
    prev,           \* the call before it
    nops,           \* number of calls run() has made so far
    other           \* a second analyzer instance running at the same time

vars == <<sketch_id, pc, func_return, wrapper_result, exc, stored, searchable,
          import_events, import_counter, written, flush_calls, gen, handles, built,
          db_events, db_comments, views, last, prev, nops, other>>

-----------------------------------------------------------------------------
(* Bounds of the model *)

MaxOps == 3

MaxStreams == 2

FlushInterval == 2

-----------------------------------------------------------------------------
(* Python values *)

None == <<>>

Some(v) == <<v>>

Range(s) == {s[i] : i \in DOMAIN s}

\* dict.get(key, default)
DictGet(d, key, default) == IF key \in DOMAIN d THEN d[key] ELSE default

\* dict.update / a partial-document merge
DictMerge(d, u) ==
    [k \in (DOMAIN d) \cup (DOMAIN u) |-> IF k \in DOMAIN u THEN u[k] ELSE d[k]]

DictRestrict(d, keys) == [k \in (DOMAIN d) \cap keys |-> d[k]]

EmptyDict == [k \in {} |-> 0]

\* truth value of an optional string: None and '' are false
TruthyStr(o) == o # None /\ o[1] # ""

\* truth value of an optional mapping or list: None, {} and [] are false
TruthyColl(o) == o # None /\ DOMAIN o[1] # {}

\* truth value of an integer id: None and 0 are false (0 stands for both)
TruthyId(n) == n # 0

\* list(a set): the elements once each, in an order the code does not fix
ListsOf(S) == {s \in [1..Cardinality(S) -> S] : Range(s) = S}

-----------------------------------------------------------------------------
(* The world the analyzer runs in *)

IndexName == "i1"       \* the analyzer's index_name

Indices == {"i1", "i2"}

EventType == "generic_event"

\* the documents of the indices, as (index, document id), in search order
HitOrder == << <<"i1", "d1">>, <<"i2", "d2">> >>

DocKeys == Range(HitOrder)

SketchIds == {0, 1}     \* 0: no sketch bound

SQLSketchRows == {1}    \* ids of the Sketch rows of the relational store

SystemUser == 0

Label(name, sketch) == [name |-> name, user_id |-> SystemUser, sketch_id |-> sketch]

Doc(tag, labels) ==
    DictMerge([message |-> "m", timesketch_label |-> labels],
              IF tag = None THEN EmptyDict ELSE [tag |-> tag[1]])

-----------------------------------------------------------------------------
(* ElasticsearchDataStore, as far as the interface uses it.  ds is the     *)
(* datastore's state: [import_events, import_counter, stored], and         *)
(* ds.written records the index with every update handed to import_event   *)
(* applied at once (what the index is to become); the result of            *)
(* import_event also records, as imported, the entry the call queued.      *)

\* what a bulk request does to one document for one queued event
\* (a mapping with a 'lang' is a script on the labels, any other a partial
\* document merged into the stored one)
ApplyUpdate(doc, event) ==
    IF "lang" \notin DOMAIN event
    THEN DictMerge(doc, event)
    ELSE LET labels == DictGet(doc, "timesketch_label", {})
             l == event.params.timesketch_label
             new == IF event.source = "toggle_label" /\ l \in labels
                    THEN labels \ {l}
                    ELSE labels \cup {l}
         IN  DictMerge(doc, [timesketch_label |-> new])

RECURSIVE Bulk(_, _)
\* client.bulk(body=queue): the queued events applied in queue order
Bulk(st, queue) ==
    IF queue = <<>> THEN st
    ELSE LET e == Head(queue)
             k == <<e.index_name, e.event_id>>
         IN  Bulk(IF k \in DOMAIN st
                  THEN [st EXCEPT ![k] = ApplyUpdate(st[k], e.event)]
                  ELSE st,
                  Tail(queue))

\* import_event(index_name, event_type, event_id=..., event=...): queue the
\* update; every FlushInterval-th event sends the queue as one bulk request
import_event(ds, index_name, event_type, event_id, event) ==
    LET q == Append(ds.import_events,
                    [index_name |-> index_name, event_type |-> event_type,
                     event_id |-> event_id, event |-> event])
        n == ds.import_counter + 1
        w == Bulk(ds.written, <<q[Len(q)]>>)
    IN  IF n % FlushInterval = 0
        THEN [import_events |-> <<>>, import_counter |-> n,
              stored |-> Bulk(ds.stored, q), written |-> w,
              imported |-> q[Len(q)]]
        ELSE [import_events |-> q, import_counter |-> n, stored |-> ds.stored,
              written |-> w, imported |-> q[Len(q)]]

\* flush_queued_events(): send whatever is queued
flush_queued_events(ds) ==
    [import_events |-> <<>>, import_counter |-> ds.import_counter,
     stored |-> Bulk(ds.stored, ds.import_events), written |-> ds.written]

\* set_label(..., single_update=False): the label update to queue, a script
\* that adds the label, or toggles it, when the bulk request applies it
set_label(index_name, event_id, event_type, sketch, user_id, label, toggle) ==
    [lang |-> "painless",
     source |-> IF toggle THEN "toggle_label" ELSE "update_label",
     params |-> [timesketch_label |->
                    [name |-> label, user_id |-> user_id, sketch_id |-> sketch]]]

\* client.indices.refresh(index=index): the index's documents become searchable
refresh(srch, st, index) ==
    [k \in DOMAIN srch |-> IF k[1] = index THEN st[k] ELSE srch[k]]

QueryStrings == {"*", "tag:t1"}

Matches(doc, query_string) ==
    \/ query_string = "*"
    \/ query_string = "tag:t1" /\ "t1" \in Range(DictGet(doc, "tag", <<>>))

RECURSIVE SelectSeq2(_, _, _, _, _)
SelectSeq2(srch, order, query_string, indices, return_fields) ==
    IF order = <<>> THEN <<>>
    ELSE LET k == Head(order)
             rest == SelectSeq2(srch, Tail(order), query_string, indices,
                                return_fields)
         IN  IF k[1] \in Range(indices) /\ Matches(srch[k], query_string)
             THEN << [_id |-> k[2], _type |-> EventType, _index |-> k[1],
                      _source |-> DictRestrict(srch[k], return_fields)] >>
                  \o rest
             ELSE rest

\* search_stream(query_string, query_filter, indices, return_fields): the raw
\* hits of the searchable documents, each with the requested fields only
search_stream(srch, query_string, query_filter, indices, return_fields) ==
    SelectSeq2(srch, HitOrder, query_string, indices, return_fields)

-----------------------------------------------------------------------------
(* The relational store *)

\* SQLSketch.query.get(sketch_id)
SQLSketch_get(sketch) == IF sketch \in SQLSketchRows THEN Some(sketch) ELSE None

\* SearchIndex.query.filter_by(index_name=...).first()
SearchIndex_first(index_name) ==
    IF index_name \in Indices THEN Some(index_name) ELSE None

\* SQLEvent.get_or_create(sketch=, searchindex=, document_id=): the rows
\* after the call; a row is added only when none has these three values
get_or_create(rows, sketch, searchindex, document_id) ==
    LET row == [sketch |-> sketch, searchindex |-> searchindex,
                document_id |-> document_id]
    IN  IF \E i \in DOMAIN rows : rows[i] = row THEN rows ELSE Append(rows, row)

FilterKeys == {"indices", "limit"}

\* View.validate_filter(query_filter): the filter with the keys it knows
validate_filter(query_filter) == DictRestrict(query_filter, FilterKeys)

-----------------------------------------------------------------------------
(* BaseAnalyzer.__init__ *)

Analyzers == {"a", "b"}     \* the analyzer instances: "a" is the one that runs

\* every analyzer working on one datastore object of the module
analyzer_datastore_shared(instance) == "a"

\* self.datastore = ElasticsearchDataStore(host=..., port=...): a datastore
\* object of the instance's own, named here after the instance
analyzer_datastore(instance) == instance

-----------------------------------------------------------------------------
(* class Event *)

HitKeys == {"_id", "_type", "_index", "_source"}

\* event.get(key)
HitGet(event, key) == IF key \in DOMAIN event THEN Some(event[key]) ELSE None

\* Event.__init__: dict.get() gives None for a key the hit lacks and raises
\* nothing, so the except clause is never entered
Event__init__(event, datastore, sketch) ==
    [raised |-> "none",
     event |-> [datastore |-> datastore,
                sketch_id |-> sketch,
                event_id |-> HitGet(event, "_id"),
                event_type |-> HitGet(event, "_type"),
                index_name |-> HitGet(event, "_index"),
                source |-> HitGet(event, "_source")]]

\* _update sending every update to the first document of the analyzer's index
Event_update_first_document(ds, h, event) ==
    import_event(ds, IndexName, h.event_type[1], "d1", event)

\* Event._update
Event_update(ds, h, event) ==
    import_event(ds, h.index_name[1], h.event_type[1], h.event_id[1], event)

\* Event.add_attributes
add_attributes(ds, h, attributes) ==
    [ds |-> Event_update(ds, h, attributes), raised |-> "none", self |-> h]

\* add_label without its sketch_id check
add_label_precondition_absent(h) == TRUE

\* the precondition of add_label: if not self.sketch_id: raise
add_label_precondition(h) == TruthyId(h.sketch_id)

\* add_label calling set_label without passing its toggle on
add_label_toggle_dropped(toggle) == FALSE

\* the toggle argument add_label hands to set_label
add_label_toggle(toggle) == toggle

\* Event.add_label
add_label(ds, h, label, toggle) ==
    IF ~add_label_precondition(h)
    THEN [ds |-> ds, raised |-> "RuntimeError", self |-> h]
    ELSE LET user_id == 0
             updated_event ==
                 set_label(h.index_name[1], h.event_id[1], h.event_type[1],
                           h.sketch_id, user_id, label, add_label_toggle(toggle))
         IN  [ds |-> Event_update(ds, h, updated_event), raised |-> "none",
              self |-> h]

\* existing_tags = self.source.get('tag', [])
existing_tags(h) == DictGet(h.source[1], "tag", <<>>)

\* add_tags writing the new tags alone
tags_union_new_only(existing, tags) == Range(tags)

\* set().union(existing_tags, tags)
tags_union(existing, tags) == Range(existing) \cup Range(tags)

\* Event.add_tags, new_tags being the order list() gave the union
add_tags(ds, h, new_tags) ==
    LET updated_event_attribute == [tag |-> new_tags]
    IN  [ds |-> Event_update(ds, h, updated_event_attribute), raised |-> "none",
         self |-> h]

\* add_star toggling the star
add_star_call_toggling == [label |-> "__ts_star", toggle |-> TRUE]

\* the arguments of add_star's add_label call
add_star_call == [label |-> "__ts_star", toggle |-> FALSE]

\* Event.add_star
add_star(ds, h) == add_label(ds, h, add_star_call.label, add_star_call.toggle)

\* add_comment making a new Event row for every comment
add_comment_commit_new_row(db, h, comment) ==
    LET db_event == [sketch |-> SQLSketch_get(h.sketch_id),
                     searchindex |-> SearchIndex_first(h.index_name[1]),
                     document_id |-> h.event_id[1]]
    IN  [events |-> Append(db.events, db_event),
         comments |-> Append(db.comments,
                             [event |-> db_event, comment |-> comment,
                              user |-> None])]

\* the relational part of add_comment: rows after db_session.commit()
add_comment_commit(db, h, comment) ==
    LET sketch == SQLSketch_get(h.sketch_id)
        searchindex == SearchIndex_first(h.index_name[1])
        rows == get_or_create(db.events, sketch, searchindex, h.event_id[1])
        db_event == [sketch |-> sketch, searchindex |-> searchindex,
                     document_id |-> h.event_id[1]]
    IN  [events |-> rows,
         comments |-> Append(db.comments,
                             [event |-> db_event, comment |-> comment,
                              user |-> None])]

\* the label step of add_comment
add_comment_label(ds, h) == add_label(ds, h, "__ts_comment", FALSE)

\* add_comment giving the label before it commits the comment
add_comment_label_first(ds, db, h, comment) ==
    LET r == add_comment_label(ds, h)
    IN  IF r.raised # "none"
        THEN [db |-> db, ds |-> r.ds, raised |-> r.raised, self |-> r.self,
              trace |-> <<"add_label">>]
        ELSE [db |-> add_comment_commit(db, h, comment), ds |-> r.ds,
              raised |-> r.raised, self |-> r.self,
              trace |-> <<"add_label", "commit">>]

\* Event.add_comment: the rows are committed, then add_label is called;
\* trace lists the two steps in the order they were taken
add_comment(ds, db, h, comment) ==
    LET committed == add_comment_commit(db, h, comment)
        r == add_comment_label(ds, h)
    IN  [db |-> committed, ds |-> r.ds, raised |-> r.raised, self |-> r.self,
         trace |-> <<"commit", "add_label">>]

-----------------------------------------------------------------------------
(* class Sketch *)

\* add_view rejecting only a call with neither query
add_view_rejects_neither(query_string, query_dsl) ==
    ~TruthyStr(query_string) /\ ~TruthyStr(query_dsl)

\* if not query_string or query_dsl: raise ValueError
add_view_rejects(query_string, query_dsl) ==
    ~TruthyStr(query_string) \/ TruthyStr(query_dsl)

\* if not query_filter: query_filter = {}
add_view_filter(query_filter) ==
    IF ~TruthyColl(query_filter) THEN EmptyDict ELSE query_filter[1]

\* Sketch.add_view: the View rows after the call, what was raised, the filter
\* given to the validator and the view returned
add_view(rows, sql_sketch, name, query_string, query_dsl, query_filter) ==
    LET filter == add_view_filter(query_filter)
        view == [name |-> name, sketch |-> sql_sketch, user |-> None,
                 query_string |-> query_string,
                 query_filter |-> validate_filter(filter),
                 query_dsl |-> query_dsl, searchtemplate |-> None]
    IN  IF add_view_rejects(query_string, query_dsl)
        THEN [views |-> rows, raised |-> "ValueError", validated |-> None,
              returned |-> None]
        ELSE [views |-> Append(rows, view), raised |-> "none",
              validated |-> Some(filter), returned |-> Some(view)]

-----------------------------------------------------------------------------
(* The state of the datastore and of the relational store as records *)

DS == [import_events |-> import_events, import_counter |-> import_counter,
       stored |-> stored, written |-> written]

SetDS(ds) ==
    /\ import_events' = ds.import_events
    /\ import_counter' = ds.import_counter
    /\ stored' = ds.stored
    /\ written' = ds.written

DB == [events |-> db_events, comments |-> db_comments]

SetDB(db) ==
    /\ db_events' = db.events
    /\ db_comments' = db.comments

DocKey(h) == <<h.index_name[1], h.event_id[1]>>

NoCall == [op |-> "none", raised |-> "none"]

NoLabelCall == [op |-> "none"]

\* what an add_label call that went through did to its label, else nothing
LabelCall(c) ==
    IF c.op = "add_label" /\ c.raised = "none"
    THEN LET l == Label(c.arg.label, c.h.sketch_id)
         IN  [op |-> c.op, key |-> DocKey(c.h), label |-> l,
              toggle |-> c.arg.toggle,
              before |-> l \in c.before.timesketch_label,
              after |-> l \in c.after.timesketch_label]
    ELSE NoLabelCall

\* no generator yet.  Of a generator: its position, the number of the
\* event_stream() call that made it, the arguments of the call, the indices
\* refreshed, the hits the search found, those not yet yielded, the Events
\* yielded, and whether next() was called on it after it had ended
NoGen == [state |-> "none", n |-> 0, query_string |-> "", return_fields |-> None,
          indices |-> None, refreshed |-> <<>>, hits |-> <<>>, found |-> <<>>,
          yielded |-> <<>>, again |-> FALSE]

\* what a call on Event h did: the document as written before and after it,
\* the Event after it and the entries it gave to import_event
Called(op, h, arg, r) ==
    [op |-> op, raised |-> r.raised, h |-> h, arg |-> arg,
     before |-> written[DocKey(h)], after |-> r.ds.written[DocKey(h)],
     self |-> r.self,
     imported |-> IF "imported" \in DOMAIN r.ds THEN <<r.ds.imported>>
                  ELSE <<>>]

-----------------------------------------------------------------------------
(* Inputs *)

\* the index before the run: the first document has no tag field and a
\* label, the second a tag and no label
InitialStore ==
    [k \in DocKeys |-> IF k = HitOrder[1] THEN Doc(None, {Label("l1", 1)})
                       ELSE Doc(Some(<<"t2">>), {})]

\* event_stream arguments: (query_string, return_fields, indices)
StreamInputs ==
    {<<"*", None, None>>,
     <<"*", None, Some(<<"i2", "i1">>)>>,
     <<"*", Some(<<"message", "tag">>), Some(<<"i2", "i1">>)>>,
     <<"tag:t1", Some(<<"message", "tag">>), Some(<<"i2", "i1">>)>>}

AttributeInputs == {[attr |-> "v"]}

LabelInputs == {"l1"}

TagInputs == {<<"t1">>, <<"t2", "t1", "t2">>}

CommentInputs == {"c1"}

QueryInputs == {None, Some(""), Some("foo")}

DslInputs == {None, Some("bar")}

FilterInputs == {None, Some([limit |-> 1, colour |-> 1])}

Results == {"r1", "r2"}

Exceptions == {"NotImplementedError", "RuntimeError", "ValueError"}

\* a hit of the first document, whole or with one of its keys missing
RawHits ==
    LET k == HitOrder[1]
        hit == [_id |-> k[2], _type |-> EventType, _index |-> k[1],
                _source |-> searchable[k]]
    IN  {hit} \cup {DictRestrict(hit, HitKeys \ {key}) : key \in HitKeys}

-----------------------------------------------------------------------------
(* Initial state: the analyzer is constructed, nothing has run *)

Init ==
    /\ sketch_id \in SketchIds
    /\ pc = "constructed"
    /\ func_return = None
    /\ wrapper_result = None
    /\ exc = None
    /\ stored = InitialStore
    /\ searchable = stored
    /\ written = stored
    /\ import_events = <<>>
    /\ import_counter = 0
    /\ flush_calls = 0
    /\ gen = NoGen
    /\ other = [pc |-> "constructed", import_events |-> <<>>,
                import_counter |-> 0, nops |-> 0]
    /\ handles = {}
    /\ built = [raised |-> "none", hit |-> None, event |-> None]
    /\ db_events = <<>>
    /\ db_comments = <<>>
    /\ views = <<>>
    /\ last = NoCall
    /\ prev = NoLabelCall
    /\ nops = 0

-----------------------------------------------------------------------------
(* run_wrapper and the flush decorator *)

\* wrapper() calls func(), run_wrapper() calls self.run()
RunWrapperCall ==
    /\ pc = "constructed"
    /\ pc' = "run"
    /\ UNCHANGED <<sketch_id, func_return, wrapper_result, exc, stored,
                   searchable, import_events, import_counter, written,
                   flush_calls, gen, handles, built, db_events, db_comments,
                   views, last, prev, nops,
                   other>>

\* result = self.run(); return result; func_return = func(self, ...)
RunReturn(result) ==
    /\ pc = "run"
    /\ pc' = "run_returned"
    /\ func_return' = Some(result)
    /\ UNCHANGED <<sketch_id, wrapper_result, exc, stored, searchable,
                   import_events, import_counter, written, flush_calls, gen,
                   handles, built, db_events, db_comments, views, last, prev,
                   nops,
                   other>>

\* wrapper() flushing in a finally clause while the exception passes
RunRaise_finally_flush(e) ==
    /\ pc = "run"
    /\ \/ e = "NotImplementedError" /\ nops = 0 /\ gen = NoGen
       \/ e # "none" /\ e = last.raised
    /\ pc' = "raised"
    /\ exc' = Some(e)
    /\ SetDS(flush_queued_events(DS))
    /\ flush_calls' = flush_calls + 1
    /\ UNCHANGED <<sketch_id, func_return, wrapper_result, searchable, gen,
                   handles, built, db_events, db_comments, views, last, prev,
                   nops,
                   other>>

\* run() raises: BaseAnalyzer.run itself (NotImplementedError), or a call of
\* run() whose exception run() does not catch; nothing in wrapper() or
\* run_wrapper() catches it
RunRaise(e) ==
    /\ pc = "run"
    /\ \/ e = "NotImplementedError" /\ nops = 0 /\ gen = NoGen
       \/ e # "none" /\ e = last.raised
    /\ pc' = "raised"
    /\ exc' = Some(e)
    /\ UNCHANGED <<sketch_id, func_return, wrapper_result, stored, searchable,
                   import_events, import_counter, written, flush_calls, gen,
                   handles, built, db_events, db_comments, views, last, prev,
                   nops,
                   other>>

\* wrapper() returning without the flush
WrapperFlushReturn_no_flush ==
    /\ pc = "run_returned"
    /\ pc' = "returned"
    /\ wrapper_result' = func_return
    /\ UNCHANGED <<sketch_id, func_return, exc, stored, searchable,
                   import_events, import_counter, written, flush_calls, gen,
                   handles, built, db_events, db_comments, views, last, prev,
                   nops,
                   other>>

\* wrapper() without its return statement
WrapperFlushReturn_drops_result ==
    /\ pc = "run_returned"
    /\ pc' = "returned"
    /\ SetDS(flush_queued_events(DS))
    /\ flush_calls' = flush_calls + 1
    /\ wrapper_result' = None
    /\ UNCHANGED <<sketch_id, func_return, exc, searchable, gen, handles, built,
                   db_events, db_comments, views, last, prev, nops,
                   other>>

\* wrapper() calling func() once more after the flush
WrapperFlushReturn_runs_again ==
    /\ pc = "run_returned"
    /\ pc' = "run"
    /\ SetDS(flush_queued_events(DS))
    /\ flush_calls' = flush_calls + 1
    /\ wrapper_result' = None
    /\ func_return' = None
    /\ UNCHANGED <<sketch_id, exc, searchable, gen, handles, built, db_events,
                   db_comments, views, last, prev, nops, other>>

\* the rest of wrapper() once func() has returned:
\* self.datastore.flush_queued_events(); return func_return
WrapperFlushReturn ==
    /\ pc = "run_returned"
    /\ pc' = "returned"
    /\ SetDS(flush_queued_events(DS))
    /\ flush_calls' = flush_calls + 1
    /\ wrapper_result' = func_return
    /\ UNCHANGED <<sketch_id, func_return, exc, searchable, gen, handles, built,
                   db_events, db_comments, views, last, prev, nops,
                   other>>

-----------------------------------------------------------------------------
(* BaseAnalyzer.event_stream, a generator: the call makes the generator     *)
(* object, the first next() runs the body up to the first yield.           *)

\* event_stream asking for the message field whatever the caller asked for
event_stream_return_fields_message_only(return_fields) == <<"message">>

\* if not return_fields: return_fields = 'message'
event_stream_return_fields(return_fields) ==
    IF ~TruthyColl(return_fields) THEN <<"message">> ELSE return_fields[1]

\* if not indices: indices = [self.index_name]
event_stream_indices(indices) ==
    IF ~TruthyColl(indices) THEN <<IndexName>> ELSE indices[1]

\* event_stream refreshing the first index of the list only
RefreshAll_first_only(srch, st, indices) ==
    IF indices = <<>> THEN srch ELSE refresh(srch, st, Head(indices))

RECURSIVE RefreshAll(_, _, _)
\* for index in indices: self.datastore.client.indices.refresh(index=index)
RefreshAll(srch, st, indices) ==
    IF indices = <<>> THEN srch
    ELSE RefreshAll(refresh(srch, st, Head(indices)), st, Tail(indices))

\* the body of event_stream up to its loop over the hits, searching first
\* and refreshing afterwards
event_stream_body_search_first(srch, st, query_string, return_fields, indices) ==
    LET query_filter == EmptyDict
        fields == event_stream_return_fields(return_fields)
        effective == event_stream_indices(indices)
        event_generator ==
            search_stream(srch, query_string, query_filter, effective,
                          Range(fields))
    IN  [searchable |-> RefreshAll(srch, st, effective),
         refreshed |-> effective, event_generator |-> event_generator]

\* the body of event_stream up to its loop over the hits: the defaults, the
\* refresh of every index, then the streaming search on what is searchable
event_stream_body(srch, st, query_string, return_fields, indices) ==
    LET query_filter == EmptyDict
        fields == event_stream_return_fields(return_fields)
        effective == event_stream_indices(indices)
        refreshed == RefreshAll(srch, st, effective)
        event_generator ==
            search_stream(refreshed, query_string, query_filter, effective,
                          Range(fields))
    IN  [searchable |-> refreshed, refreshed |-> effective,
         event_generator |-> event_generator]

\* the generator object a call of event_stream returns; nothing of the body
\* has run yet.  The model follows the generator of the latest call only.
EventStream(query_string, return_fields, indices) ==
    /\ gen' = [state |-> "created", n |-> gen.n + 1,
               query_string |-> query_string,
               return_fields |-> return_fields, indices |-> indices,
               refreshed |-> <<>>, hits |-> <<>>, found |-> <<>>,
               yielded |-> <<>>, again |-> FALSE]
    /\ UNCHANGED <<sketch_id, pc, func_return, wrapper_result, exc, stored,
                   searchable, import_events, import_counter, written,
                   flush_calls, handles, built, db_events, db_comments, views,
                   last, prev, nops, other>>

\* the first self.event_stream(query_string, return_fields=, indices=) of run()
EventStreamCall(query_string, return_fields, indices) ==
    /\ pc = "run"
    /\ gen.n = 0
    /\ EventStream(query_string, return_fields, indices)

\* a further self.event_stream(...) call of the same run()
EventStreamAgain(query_string, return_fields, indices) ==
    /\ pc = "run"
    /\ gen.n >= 1
    /\ gen.n < MaxStreams
    /\ EventStream(query_string, return_fields, indices)

\* yield Event(event, self.datastore, sketch_id=self.sketch_id)
Yield(g, hits) ==
    LET event == Event__init__(Head(hits), analyzer_datastore("a"),
                               sketch_id).event
    IN  /\ gen' = [g EXCEPT !.state = "streaming", !.hits = Tail(hits),
                            !.yielded = Append(g.yielded, event)]
        /\ handles' = handles \cup {event}

\* next() on a generator that has ended running the body once more
ExhaustedNext_restarts ==
    LET body == event_stream_body(searchable, stored, gen.query_string,
                                  gen.return_fields, gen.indices)
        g == [gen EXCEPT !.again = TRUE, !.found = body.event_generator]
    IN  /\ searchable' = body.searchable
        /\ IF body.event_generator = <<>>
           THEN gen' = g /\ UNCHANGED handles
           ELSE Yield(g, body.event_generator)

\* next() on a generator that has ended: StopIteration, nothing of the body
\* runs again
ExhaustedNext ==
    /\ gen' = [gen EXCEPT !.again = TRUE]
    /\ UNCHANGED <<searchable, handles>>

\* next() on the generator: the first one refreshes every index and starts
\* the search; each one yields the Event of the next hit, or ends the stream
StreamNext ==
    /\ pc = "run"
    /\ \/ /\ gen.state = "created"
          /\ LET body == event_stream_body(searchable, stored, gen.query_string,
                                           gen.return_fields, gen.indices)
                 g == [gen EXCEPT !.refreshed = body.refreshed,
                                  !.found = body.event_generator]
             IN  /\ searchable' = body.searchable
                 /\ IF body.event_generator = <<>>
                    THEN /\ gen' = [g EXCEPT !.state = "done"]
                         /\ UNCHANGED handles
                    ELSE Yield(g, body.event_generator)
       \/ /\ gen.state = "streaming"
          /\ UNCHANGED searchable
          /\ IF gen.hits = <<>>
             THEN /\ gen' = [gen EXCEPT !.state = "done"]
                  /\ UNCHANGED handles
             ELSE Yield(gen, gen.hits)
       \/ /\ gen.state = "done"
          /\ ~gen.again
          /\ ExhaustedNext
    /\ UNCHANGED <<sketch_id, pc, func_return, wrapper_result, exc, stored,
                   import_events, import_counter, written, flush_calls, built,
                   db_events, db_comments, views, last, prev, nops, other>>

-----------------------------------------------------------------------------
(* The calls run() makes on Event and Sketch objects *)

\* Event(hit, self.datastore, sketch_id=self.sketch_id), built by hand
ConstructEvent(hit) ==
    /\ pc = "run"
    /\ nops < MaxOps
    /\ LET r == Event__init__(hit, analyzer_datastore("a"), sketch_id)
       IN  built' = [raised |-> r.raised, hit |-> Some(hit),
                     event |-> IF r.raised = "none" THEN Some(r.event)
                               ELSE None]
    /\ nops' = nops + 1
    /\ UNCHANGED <<sketch_id, pc, func_return, wrapper_result, exc, stored,
                   searchable, import_events, import_counter, written,
                   flush_calls, gen, handles, db_events, db_comments, views,
                   last, prev,
                   other>>

\* the bookkeeping every call of run() on an Event shares
EventCall(op, h, arg, r) ==
    /\ SetDS(r.ds)
    /\ last' = Called(op, h, arg, r)
    /\ prev' = LabelCall(last)
    /\ nops' = nops + 1
    /\ handles' = (handles \ {h}) \cup {r.self}
    /\ UNCHANGED <<sketch_id, pc, func_return, wrapper_result, exc, searchable,
                   flush_calls, gen, built, views, other>>

AddAttributes(h, attributes) ==
    /\ pc = "run"
    /\ nops < MaxOps
    /\ EventCall("add_attributes", h, attributes, add_attributes(DS, h, attributes))
    /\ UNCHANGED <<db_events, db_comments>>

AddLabel(h, label, toggle) ==
    /\ pc = "run"
    /\ nops < MaxOps
    /\ EventCall("add_label", h, [label |-> label, toggle |-> toggle],
                 add_label(DS, h, label, toggle))
    /\ UNCHANGED <<db_events, db_comments>>

AddTags(h, tags) ==
    /\ pc = "run"
    /\ nops < MaxOps
    /\ \E new_tags \in ListsOf(tags_union(existing_tags(h), tags)) :
           EventCall("add_tags", h, tags, add_tags(DS, h, new_tags))
    /\ UNCHANGED <<db_events, db_comments>>

AddStar(h) ==
    /\ pc = "run"
    /\ nops < MaxOps
    /\ EventCall("add_star", h, None, add_star(DS, h))
    /\ UNCHANGED <<db_events, db_comments>>

AddComment(h, comment) ==
    /\ pc = "run"
    /\ nops < MaxOps
    /\ LET r == add_comment(DS, DB, h, comment)
       IN  /\ EventCall("add_comment", h,
                         [comment |-> comment, db |-> DB, trace |-> r.trace], r)
           /\ SetDB(r.db)

\* self.sketch.add_view(name, query_string=, query_dsl=, query_filter=)
AddView(query_string, query_dsl, query_filter) ==
    /\ pc = "run"
    /\ nops < MaxOps
    /\ TruthyId(sketch_id)
    /\ LET r == add_view(views, SQLSketch_get(sketch_id), "view",
                         query_string, query_dsl, query_filter)
       IN  /\ views' = r.views
           /\ last' = [op |-> "add_view", raised |-> r.raised,
                       query_string |-> query_string, query_dsl |-> query_dsl,
                       query_filter |-> query_filter,
                       validated |-> r.validated, returned |-> r.returned,
                       before |-> views]
    /\ prev' = LabelCall(last)
    /\ nops' = nops + 1
    /\ UNCHANGED <<sketch_id, pc, func_return, wrapper_result, exc, stored,
                   searchable, import_events, import_counter, written,
                   flush_calls, gen, handles, built, db_events, db_comments,
                   other>>

-----------------------------------------------------------------------------
(* A second analyzer instance, "b", run by another worker on the same      *)
(* index: its run_wrapper() call and the updates of its run(), each step   *)
(* interleaved with those of "a".  other holds its position, the queue and *)
(* the counter of its datastore object and the number of its calls.        *)

\* the state of datastore object d: the one of "a" is in the variables of
\* its own, any other one is the one of "b"; the index is the same for both
DSOf(d) ==
    IF d = analyzer_datastore("a") THEN DS
    ELSE [import_events |-> other.import_events,
          import_counter |-> other.import_counter,
          stored |-> stored, written |-> written]

\* datastore object d after a call of "b" that left it as ds
OtherSetDS(d, ds) ==
    IF d = analyzer_datastore("a")
    THEN /\ SetDS(ds)
         /\ other' = [other EXCEPT !.nops = other.nops + 1]
    ELSE /\ other' = [other EXCEPT !.import_events = ds.import_events,
                                   !.import_counter = ds.import_counter,
                                   !.nops = other.nops + 1]
         /\ stored' = ds.stored
         /\ written' = ds.written
         /\ UNCHANGED <<import_events, import_counter>>

\* what "b" writes to the documents it visits
OtherAttributes == [seen_by |-> "b"]

\* the Event "b" holds of document k: Event(hit, self.datastore, sketch_id)
OtherEvent(k) ==
    Event__init__([_id |-> k[2], _type |-> EventType, _index |-> k[1],
                   _source |-> DictRestrict(InitialStore[k], {"message"})],
                  analyzer_datastore("b"), sketch_id).event

\* run_wrapper() of "b" is called
OtherRunWrapperCall ==
    /\ other.pc = "constructed"
    /\ other' = [other EXCEPT !.pc = "run"]
    /\ UNCHANGED <<sketch_id, pc, func_return, wrapper_result, exc, stored,
                   searchable, import_events, import_counter, written,
                   flush_calls, gen, handles, built, db_events, db_comments,
                   views, last, prev, nops>>

\* run() of "b" calls add_attributes on its Event of document k
OtherAddAttributes(k) ==
    /\ other.pc = "run"
    /\ other.nops < MaxOps
    /\ LET h == OtherEvent(k)
           r == add_attributes(DSOf(h.datastore), h, OtherAttributes)
       IN  OtherSetDS(h.datastore, r.ds)
    /\ UNCHANGED <<sketch_id, pc, func_return, wrapper_result, exc, searchable,
                   flush_calls, gen, handles, built, db_events, db_comments,
                   views, last, prev, nops>>

\* run() of "b" raises: wrapper() of "b" is left before its flush
OtherRunRaise ==
    /\ other.pc = "run"
    /\ other' = [other EXCEPT !.pc = "raised"]
    /\ UNCHANGED <<sketch_id, pc, func_return, wrapper_result, exc, stored,
                   searchable, import_events, import_counter, written,
                   flush_calls, gen, handles, built, db_events, db_comments,
                   views, last, prev, nops>>

\* run() of "b" returns and wrapper() of "b" flushes the datastore of "b"
OtherFlushReturn ==
    /\ other.pc = "run"
    /\ LET d == analyzer_datastore("b")
           ds == flush_queued_events(DSOf(d))
       IN  IF d = analyzer_datastore("a")
           THEN /\ SetDS(ds)
                /\ other' = [other EXCEPT !.pc = "returned"]
           ELSE /\ other' = [other EXCEPT !.pc = "returned",
                                          !.import_events = ds.import_events]
                /\ stored' = ds.stored
                /\ UNCHANGED <<import_events, import_counter, written>>
    /\ UNCHANGED <<sketch_id, pc, func_return, wrapper_result, exc, searchable,
                   flush_calls, gen, handles, built, db_events, db_comments,
                   views, last, prev, nops>>

-----------------------------------------------------------------------------

\* an analyzer run: event streams and calls on the Events they yield
Next ==
    \/ RunWrapperCall
    \/ \E a \in StreamInputs : EventStreamCall(a[1], a[2], a[3])
    \/ StreamNext
    \/ \E h \in handles, a \in AttributeInputs : AddAttributes(h, a)
    \/ \E h \in handles, l \in LabelInputs, t \in BOOLEAN : AddLabel(h, l, t)
    \/ \E h \in handles, t \in TagInputs : AddTags(h, t)
    \/ \E h \in handles : AddStar(h)
    \/ \E h \in handles, c \in CommentInputs : AddComment(h, c)
    \/ \E r \in Results : RunReturn(r)
    \/ \E e \in Exceptions : RunRaise(e)
    \/ WrapperFlushReturn

Spec == Init /\ [][Next]_vars

\* an analyzer run that builds Events from raw hits and saves views
NextObjects ==
    \/ RunWrapperCall
    \/ \E hit \in RawHits : ConstructEvent(hit)
    \/ \E q \in QueryInputs, d \in DslInputs, f \in FilterInputs :
           AddView(q, d, f)
    \/ \E r \in Results : RunReturn(r)
    \/ \E e \in Exceptions : RunRaise(e)
    \/ WrapperFlushReturn

SpecObjects == Init /\ [][NextObjects]_vars

\* the body of a run() that queries more than once: event streams, one
\* after the other, and tags added to the Events they yield in between
NextStreams ==
    \/ RunWrapperCall
    \/ \E a \in StreamInputs : EventStreamCall(a[1], a[2], a[3])
    \/ \E a \in StreamInputs : EventStreamAgain(a[1], a[2], a[3])
    \/ StreamNext
    \/ \E h \in handles, t \in TagInputs : AddTags(h, t)

SpecStreams == Init /\ [][NextStreams]_vars

\* two analyzers at work on the same index at the same time
NextTwo ==
    \/ RunWrapperCall
    \/ \E a \in StreamInputs : EventStreamCall(a[1], a[2], a[3])
    \/ StreamNext
    \/ \E h \in handles, a \in AttributeInputs : AddAttributes(h, a)
    \/ \E r \in Results : RunReturn(r)
    \/ \E e \in Exceptions : RunRaise(e)
    \/ WrapperFlushReturn
    \/ OtherRunWrapperCall
    \/ \E k \in DocKeys : OtherAddAttributes(k)
    \/ OtherRunRaise
    \/ OtherFlushReturn

SpecTwo == Init /\ [][NextTwo]_vars

-----------------------------------------------------------------------------
(* Properties of run_wrapper and the flush decorator *)

\* C1: when run() returns normally, flush_queued_events() is called exactly
\* once, after run() has returned and never before or during run(), and
\* run_wrapper() returns the value run() returned.
C1_FlushOnceAfterRun ==
    /\ pc \in {"constructed", "run", "run_returned"} => flush_calls = 0
    /\ pc \in {"constructed", "run"} => func_return = None
    /\ pc \in {"constructed", "run", "run_returned"} => wrapper_result = None
    /\ pc = "returned" =>
          /\ flush_calls = 1
          /\ func_return \in {Some(r) : r \in Results}
          /\ wrapper_result = func_return
          /\ exc = None

C1_Witness ==
    /\ pc = "returned"
    /\ flush_calls = 1
    /\ wrapper_result = Some("r2")
    /\ import_counter = MaxOps

\* C2: when run_wrapper() returns normally the mutation queue is empty and
\* every update an Event method gave to import_event during run() has been
\* applied to the index.
C2_NoWriteLost ==
    pc = "returned" => import_events = <<>> /\ stored = written

\* a run whose only update was still queued when run() returned
C2_Witness ==
    /\ pc = "returned"
    /\ import_counter = 1
    /\ stored # InitialStore
    /\ stored = written

\* C3: if run() raises, the exception leaves run_wrapper() as it is, no
\* flush_queued_events() call is made, the queued updates stay queued and
\* unapplied, and nothing happens in that invocation afterwards.
C3_RaiseSkipsFlush ==
    [][/\ (pc # "raised" /\ pc' = "raised") =>
             /\ pc = "run"
             /\ exc' \in {Some("NotImplementedError"), Some(last.raised)}
             /\ exc' # Some("none")
             /\ flush_calls' = 0
             /\ wrapper_result' = None
             /\ UNCHANGED <<stored, import_events, written>>
       /\ pc = "raised" => UNCHANGED vars]_vars

\* run() raised while an update was queued: it is in the queue, not the index
C3_Witness ==
    /\ pc = "raised"
    /\ exc = Some("RuntimeError")
    /\ import_events # <<>>
    /\ stored # written
    /\ flush_calls = 0

-----------------------------------------------------------------------------
(* Properties of Event *)

SnapshotTags(h) ==
    IF "tag" \in DOMAIN h.source[1] THEN h.source[1].tag ELSE <<>>

Without(d, key) == DictRestrict(d, (DOMAIN d) \ {key})

\* C4: add_tags(T1) on an Event whose snapshot holds the tags T0 replaces the
\* document's tag field by the set union of T0 and T1: every element of
\* both, each once, nothing else, whatever the order of T1; no other field of
\* the document changes, and the stored document has it once it is flushed.
C4_AddTagsUnion ==
    last.op = "add_tags" =>
        LET union == Range(SnapshotTags(last.h)) \cup Range(last.arg)
        IN  /\ last.raised = "none"
            /\ "tag" \in DOMAIN last.after
            /\ Range(last.after.tag) = union
            /\ Len(last.after.tag) = Cardinality(union)
            /\ Without(last.after, "tag") = Without(last.before, "tag")
            /\ import_events = <<>> => stored[DocKey(last.h)] = last.after

\* tags {t2} in the snapshot, t2 twice and t1 given, both stored once
C4_Witness ==
    /\ last.op = "add_tags"
    /\ SnapshotTags(last.h) = <<"t2">>
    /\ last.arg = <<"t2", "t1", "t2">>
    /\ pc = "returned"
    /\ stored[DocKey(last.h)].tag = <<"t1", "t2">>

SameLabelCalls ==
    /\ last.op = "add_label"
    /\ last.raised = "none"
    /\ last.arg.toggle
    /\ prev.op = "add_label"
    /\ prev.toggle
    /\ prev.key = DocKey(last.h)
    /\ prev.label = Label(last.arg.label, last.h.sketch_id)

\* C5: two add_label(L, toggle=True) calls in succession on the same event
\* toggle the label twice: the first call inverts its presence on the
\* document and the second restores it (present, absent, present).
C5_ToggleTwice ==
    SameLabelCalls =>
        LET l == prev.label
        IN  /\ prev.after = ~prev.before
            /\ (l \in last.before.timesketch_label) = prev.after
            /\ (l \in last.after.timesketch_label) = prev.before
            /\ import_events = <<>> =>
                  (l \in stored[prev.key].timesketch_label) = prev.before

\* the label was present, the first call removed it, the second put it back
C5_Witness ==
    /\ SameLabelCalls
    /\ prev.before
    /\ ~prev.after
    /\ pc = "returned"
    /\ prev.label \in stored[prev.key].timesketch_label

Star(h) == Label("__ts_star", h.sketch_id)

\* C6: add_star() does what add_label("__ts_star") without toggle does: it
\* adds the star label to the document's labels and changes nothing else;
\* a repeated call leaves the document as it is, the star still present.
C6_AddStarIdempotent ==
    (last.op = "add_star" /\ TruthyId(last.h.sketch_id)) =>
        /\ last.raised = "none"
        /\ last.after =
              DictMerge(last.before,
                        [timesketch_label |->
                            last.before.timesketch_label \cup {Star(last.h)}])
        /\ Star(last.h) \in last.before.timesketch_label =>
              last.after = last.before
        /\ import_events = <<>> => stored[DocKey(last.h)] = last.after

\* a second add_star() on a starred document, flushed
C6_Witness ==
    /\ last.op = "add_star"
    /\ last.raised = "none"
    /\ Star(last.h) \in last.before.timesketch_label
    /\ pc = "returned"
    /\ Star(last.h) \in stored[DocKey(last.h)].timesketch_label

CommentEvent(h) ==
    [sketch |-> Some(h.sketch_id), searchindex |-> Some(h.index_name[1]),
     document_id |-> h.event_id[1]]

CommentLabel(h) == Label("__ts_comment", h.sketch_id)

OneCommentRow(h) ==
    \E row \in {[sketch |-> s, searchindex |-> Some(h.index_name[1]),
                  document_id |-> h.event_id[1]] :
                    s \in {None, Some(h.sketch_id)}} :
        /\ db_comments =
              Append(last.arg.db.comments,
                     [event |-> row, comment |-> last.arg.comment,
                      user |-> None])
        /\ row \in Range(db_events)

NoDuplicateEventRows ==
    \A i, j \in DOMAIN db_events : db_events[i] = db_events[j] => i = j

\* C7 as stated: every add_comment(c) adds exactly one comment row, linked to
\* the document's relational Event, and asserts the "has comment" label on
\* the document; the relational Event is created at most once per document.
C7_AlwaysCommentAndLabel ==
    /\ NoDuplicateEventRows
    /\ last.op = "add_comment" =>
          /\ OneCommentRow(last.h)
          /\ CommentLabel(last.h) \in last.after.timesketch_label

\* C7 amended: on an Event bound to a sketch, add_comment(c) adds exactly
\* one comment row (author unset) linked to the relational Event of (sketch,
\* search index, document id), creating that Event only if there was none,
\* and asserts the "has comment" label on the document; no sequence of
\* add_comment calls makes two relational Events for one document.
C7_CommentAndLabelWithSketch ==
    /\ NoDuplicateEventRows
    /\ (last.op = "add_comment" /\ TruthyId(last.h.sketch_id)) =>
          LET row == CommentEvent(last.h)
              before == last.arg.db
          IN  /\ last.raised = "none"
              /\ db_comments =
                    Append(before.comments,
                           [event |-> row, comment |-> last.arg.comment,
                            user |-> None])
              /\ db_events = IF row \in Range(before.events)
                             THEN before.events
                             ELSE Append(before.events, row)
              /\ last.after =
                    DictMerge(last.before,
                              [timesketch_label |->
                                  last.before.timesketch_label
                                      \cup {CommentLabel(last.h)}])
              /\ import_events = <<>> => stored[DocKey(last.h)] = last.after

\* the second comment on a document: its Event row was there already
C7_Witness ==
    /\ last.op = "add_comment"
    /\ TruthyId(last.h.sketch_id)
    /\ CommentEvent(last.h) \in Range(last.arg.db.events)
    /\ Len(db_comments) = 2
    /\ Len(db_events) = 1
    /\ pc = "returned"
    /\ CommentLabel(last.h) \in stored[DocKey(last.h)].timesketch_label

\* C8: add_label and add_comment (and add_star, which is add_label) on an
\* Event whose sketch_id is unset end in the precondition error, raised to
\* the caller.
C8_NoSketchRaises ==
    (last.op \in {"add_label", "add_star", "add_comment"}
        /\ ~TruthyId(last.h.sketch_id)) => last.raised = "RuntimeError"

C8_Witness ==
    /\ last.op = "add_comment"
    /\ last.h.sketch_id = 0
    /\ last.raised = "RuntimeError"
    /\ pc = "raised"
    /\ exc = Some("RuntimeError")

\* C9: building an Event from a raw hit that lacks one of _id, _type, _index,
\* _source raises the construction error (KeyError), and no Event with an
\* undefined identity or source field is made.
C9_MalformedHitRaises ==
    (built.hit # None /\ HitKeys \ DOMAIN built.hit[1] # {}) =>
        built.raised = "KeyError" /\ built.event = None

-----------------------------------------------------------------------------
(* Properties of Sketch *)

\* C10: add_view makes and commits a View exactly when a query string is
\* given (non-empty) and no query DSL is; otherwise it raises the validation
\* error and no View is saved.  On success the filter given to the validator
\* is the empty mapping when query_filter was omitted, one View is
\* committed, and that View is returned.
C10_AddViewGate ==
    last.op = "add_view" =>
        IF TruthyStr(last.query_string) /\ ~TruthyStr(last.query_dsl)
        THEN /\ last.raised = "none"
             /\ last.returned # None
             /\ views = Append(last.before, last.returned[1])
             /\ last.returned[1].query_string = last.query_string
             /\ last.returned[1].query_dsl = last.query_dsl
             /\ last.query_filter = None => last.validated = Some(EmptyDict)
             /\ last.query_filter # None =>
                   last.validated = last.query_filter
        ELSE /\ last.raised = "ValueError"
             /\ last.returned = None
             /\ views = last.before

C10_Witness ==
    /\ last.op = "add_view"
    /\ last.raised = "none"
    /\ last.query_string = Some("foo")
    /\ last.query_dsl = None
    /\ last.query_filter = None
    /\ last.returned[1].query_filter = EmptyDict
    /\ Len(views) = 2

-----------------------------------------------------------------------------
(* Properties of event_stream *)

EffectiveIndices(g) == IF g.indices = None \/ g.indices = Some(<<>>)
                       THEN <<IndexName>> ELSE g.indices[1]

ReturnedFields(g) == IF g.return_fields = None \/ g.return_fields = Some(<<>>)
                     THEN {"message"} ELSE Range(g.return_fields[1])

HitKey(hit) == <<hit._index, hit._id>>

\* the step in which the first next() on a generator runs the body
FirstNext == gen.state = "created" /\ gen'.state # "created"

\* the hits are those of the documents of index, in the effective indices,
\* that match the query, each carrying the requested fields of index
HitsReflect(hits, index, g) ==
    /\ {HitKey(hits[i]) : i \in DOMAIN hits} =
          {k \in DocKeys : /\ k[1] \in Range(EffectiveIndices(g))
                           /\ Matches(index[k], g.query_string)}
    /\ \A i \in DOMAIN hits :
          hits[i]._source = DictRestrict(index[HitKey(hits[i])],
                                         ReturnedFields(g))

\* a hit shows a queued update: it differs from the stored document in a
\* field it carries
QueuedShows(hits, g) ==
    \E i \in DOMAIN hits :
        /\ stored[HitKey(hits[i])] # written[HitKey(hits[i])]
        /\ hits[i]._source # DictRestrict(stored[HitKey(hits[i])],
                                          ReturnedFields(g))

\* C11: a second (or later) event_stream call of the same run() refreshes
\* its indices again, and the hits it finds are those of the index as the
\* bulk requests sent so far have made it: every update applied since the
\* earlier query shows, no update that is only queued does.
C11_SecondStreamSeesApplied ==
    [][(FirstNext /\ gen.n >= 2) =>
          /\ gen'.refreshed = EffectiveIndices(gen)
          /\ \A k \in DocKeys :
                k[1] \in Range(EffectiveIndices(gen)) => searchable'[k] = stored[k]
          /\ HitsReflect(gen'.found, stored, gen)
          /\ ~QueuedShows(gen'.found, gen)]_vars

\* the second stream yields the first document with the tag a bulk request
\* applied after the first query, and without the tag still in the queue
C11_Witness ==
    /\ gen.n = 2
    /\ gen.state = "streaming"
    /\ nops = MaxOps
    /\ import_events # <<>>
    /\ gen.found[1]._id = "d1"
    /\ "tag" \in DOMAIN gen.found[1]._source
    /\ gen.found[1]._source.tag = <<"t1">>
    /\ stored[HitOrder[1]].tag = <<"t1">>
    /\ "t2" \in Range(written[HitOrder[1]].tag)

\* C12: the first next() of every event_stream call refreshes every index of
\* the effective indices list (the analyzer's own index when none is given)
\* and searches what is searchable after that: the search sees no effective
\* index unrefreshed, and no Event is yielded, nor any hit found, by a
\* generator that has not refreshed them all.
C12_RefreshBeforeSearch ==
    [][/\ gen'.state = "created" =>
             gen'.refreshed = <<>> /\ gen'.found = <<>> /\ gen'.yielded = <<>>
       /\ gen'.state \in {"streaming", "done"} =>
             /\ gen'.refreshed = EffectiveIndices(gen')
             /\ gen'.indices = None => gen'.refreshed = <<IndexName>>
       /\ FirstNext =>
             LET fresh == [k \in DocKeys |->
                              IF k[1] \in Range(EffectiveIndices(gen))
                              THEN stored[k] ELSE searchable[k]]
             IN  /\ searchable' = fresh
                 /\ gen'.found =
                       search_stream(fresh, gen.query_string, EmptyDict,
                                     EffectiveIndices(gen), ReturnedFields(gen))]_vars

\* a second call without indices refreshed the analyzer's index, which
\* had changed, and left the other index, changed too, as it was
C12_Witness ==
    /\ gen.n = 2
    /\ gen.indices = None
    /\ gen.state = "streaming"
    /\ gen.refreshed = <<IndexName>>
    /\ searchable[HitOrder[1]] # InitialStore[HitOrder[1]]
    /\ searchable[HitOrder[1]] = stored[HitOrder[1]]
    /\ searchable[HitOrder[2]] = InitialStore[HitOrder[2]]
    /\ stored[HitOrder[2]] # InitialStore[HitOrder[2]]

-----------------------------------------------------------------------------
(* Properties of an analyzer's life *)

PassOrder ==
    {<<"constructed", "run">>, <<"run", "run_returned">>,
     <<"run_returned", "returned">>, <<"run", "raised">>}

-----------------------------------------------------------------------------
(* Further properties of Event *)

\* the comment row of the latest add_comment call is the last one committed
CommentCommitted ==
    /\ Len(db_comments) = Len(last.arg.db.comments) + 1
    /\ db_comments[Len(db_comments)].comment = last.arg.comment
    /\ db_comments[Len(db_comments)].event.document_id = last.h.event_id[1]
    /\ db_comments[Len(db_comments)].event \in Range(db_events)

\* C14: add_comment commits the comment row before it computes and queues
\* the "has comment" label: when the label step fails the committed row
\* stays (nothing rolls it back) and no label update is queued, and a
\* label update is queued only for a comment whose row is committed.
C14_CommitBeforeLabel ==
    last.op = "add_comment" =>
        /\ last.arg.trace = <<"commit", "add_label">>
        /\ CommentCommitted
        /\ last.raised # "none" =>
              last.imported = <<>> /\ last.after = last.before
        /\ last.raised = "none" =>
              /\ Len(last.imported) = 1
              /\ last.imported[1].event.params.timesketch_label =
                    CommentLabel(last.h)

\* the label step failed, the exception left run(), the row is still there
C14_Witness ==
    /\ last.op = "add_comment"
    /\ last.raised = "RuntimeError"
    /\ pc = "raised"
    /\ CommentCommitted
    /\ Len(db_comments) = 2
    /\ import_counter = 0

-----------------------------------------------------------------------------
(* Reading one's own writes *)

\* C15 as stated: the refresh before the search makes every update the run
\* gave to Event methods before the event_stream call show in the events
\* the stream yields.
C15_ReadYourWrites ==
    [][FirstNext => HitsReflect(gen'.found, written, gen)]_vars

\* C15 amended: the refresh before the search makes every update of the run
\* that a bulk request had applied to the index before the stream's first
\* next() show in the events the stream yields, in the fields the stream
\* asked for; an update still in the queue does not show.
C15_AppliedWritesVisible ==
    [][/\ FirstNext => HitsReflect(gen'.found, stored, gen)
       /\ \A i \in DOMAIN gen'.yielded :
             gen'.yielded[i].source = Some(gen'.found[i]._source)]_vars

\* the tag the run gave the first document, applied by a bulk request, is
\* in the Event a later stream yields for it
C15_Witness ==
    /\ gen.n = 2
    /\ gen.state = "streaming"
    /\ Len(gen.yielded) = 1
    /\ import_counter = FlushInterval
    /\ import_events = <<>>
    /\ gen.yielded[1].event_id = Some("d1")
    /\ "tag" \in DOMAIN gen.yielded[1].source[1]
    /\ gen.yielded[1].source[1].tag = <<"t1">>

-----------------------------------------------------------------------------
(* Tags over a run *)

DocTags(doc) == Range(DictGet(doc, "tag", <<>>))

\* C16: tags only accumulate.  The document an add_tags(T) call finds (the
\* tags before the run and those of the run's earlier add_tags calls on
\* it, whichever handle made them) keeps all its tags and gains T, and
\* that is what is stored after the flush.
C16_TagsOnlyAccumulate ==
    last.op = "add_tags" =>
        /\ DocTags(last.after) = DocTags(last.before) \cup Range(last.arg)
        /\ pc = "returned" =>
              DocTags(stored[DocKey(last.h)]) =
                  DocTags(last.before) \cup Range(last.arg)

-----------------------------------------------------------------------------
(* Two analyzers at once *)

ByOther(e) == "seen_by" \in DOMAIN e.event

\* each datastore object's queue holds the updates of its own analyzer
OwnQueues ==
    /\ \A i \in DOMAIN import_events : ~ByOther(import_events[i])
    /\ \A i \in DOMAIN other.import_events : ByOther(other.import_events[i])

\* C17: two analyzers running at once have each a datastore object and a
\* queue of their own: whatever the interleaving, a queue holds only the
\* updates of its analyzer, the flush of one applies its own queue and
\* leaves the other's as it is, and an exception in the run() of the
\* other neither drops nor applies an update the first has queued.
C17_NoSharedQueue ==
    [][/\ OwnQueues'
       /\ (pc = "run_returned" /\ pc' = "returned") =>
             /\ stored' = Bulk(stored, import_events)
             /\ import_events' = <<>>
             /\ other' = other
       /\ (other.pc = "run" /\ other'.pc = "raised") =>
             UNCHANGED <<import_events, import_counter, stored>>
       /\ other'.pc = "raised" /\ pc' = "returned" =>
             \A k \in DocKeys :
                 "attr" \in DOMAIN written'[k] => "attr" \in DOMAIN stored'[k]]_vars

\* the first analyzer's update is applied by its flush although the other
\* raised, and the update the other had queued is neither applied nor gone
C17_Witness ==
    /\ pc = "returned"
    /\ other.pc = "raised"
    /\ Len(other.import_events) = 1
    /\ import_counter = 1
    /\ "attr" \in DOMAIN stored[HitOrder[1]]
    /\ "seen_by" \notin DOMAIN stored[HitOrder[1]]
    /\ "seen_by" \in DOMAIN written[HitOrder[1]]

-----------------------------------------------------------------------------
(* The stream as a sequence *)

\* Event e is the Event of raw hit hit, bound to the analyzer's datastore
\* and sketch
EventOfHit(e, hit) ==
    /\ e.event_id = Some(hit._id)
    /\ e.event_type = Some(hit._type)
    /\ e.index_name = Some(hit._index)
    /\ e.source = Some(hit._source)
    /\ e.sketch_id = sketch_id
    /\ e.datastore = "a"

IsPrefix(s, t) == Len(s) <= Len(t) /\ SubSeq(t, 1, Len(s)) = s

\* the Events yielded so far are those of the first hits found, in order
StreamInOrder ==
    /\ Len(gen.yielded) + Len(gen.hits) = Len(gen.found)
    /\ Len(gen.found) <= Cardinality(DocKeys)
    /\ \A i \in DOMAIN gen.yielded : EventOfHit(gen.yielded[i], gen.found[i])
    /\ \A i \in DOMAIN gen.hits :
          gen.hits[i] = gen.found[Len(gen.yielded) + i]
    /\ gen.state = "done" => gen.hits = <<>>

\* C18: an event stream yields one Event for every raw hit of its search,
\* in the order of the hits, each bound to the analyzer's datastore and
\* sketch_id; it only moves forward and it ends: once it has ended a
\* further next() yields no Event and refreshes and searches nothing.
C18_OneEventPerHit ==
    [][/\ StreamInOrder'
       /\ gen'.n = gen.n => IsPrefix(gen.yielded, gen'.yielded)
       /\ (gen.state = "done" /\ gen'.n = gen.n) =>
             /\ gen'.state = "done"
             /\ gen'.yielded = gen.yielded
             /\ gen'.found = gen.found
             /\ gen'.refreshed = gen.refreshed
             /\ UNCHANGED <<searchable, handles>>]_vars

\* both documents were yielded, the stream ended, next() was called again
C18_Witness ==
    /\ gen.state = "done"
    /\ gen.again
    /\ Len(gen.found) = 2
    /\ Len(gen.yielded) = 2
    /\ gen.yielded[1].event_id = Some("d1")
    /\ gen.yielded[2].event_id = Some("d2")
    /\ Cardinality(handles) = 2
    /\ stored # searchable

-----------------------------------------------------------------------------
(* What a call on an Event leaves alone *)

EventOps == {"add_attributes", "add_label", "add_tags", "add_star", "add_comment"}

\* C19: a sketch-scoped call that raises for want of a sketch_id has
\* changed nothing: no update was given to import_event, the document is
\* to become what it was, and no relational Event or Comment row was made.
C19_FailedCallChangesNothing ==
    (last.op \in {"add_label", "add_star", "add_comment"}
        /\ last.raised = "RuntimeError") =>
        /\ last.imported = <<>>
        /\ last.after = last.before
        /\ last.op = "add_comment" =>
              /\ db_events = last.arg.db.events
              /\ db_comments = last.arg.db.comments

\* C20: no call on an Event changes the Event (its event_id, event_type,
\* index_name, sketch_id, source snapshot), which the analyzer holds as it
\* was, and every update the call gives to import_event names the Event's
\* own index_name, event_type and event_id.
C20_WriteThrough ==
    last.op \in EventOps =>
        /\ last.self = last.h
        /\ last.h \in handles
        /\ \A i \in DOMAIN last.imported :
              /\ Some(last.imported[i].index_name) = last.h.index_name
              /\ Some(last.imported[i].event_type) = last.h.event_type
              /\ Some(last.imported[i].event_id) = last.h.event_id

\* tags added through the Event of the second document: the Event still has
\* the snapshot without them, the second document has them after the
\* flush, the first document is as it was
C20_Witness ==
    /\ last.op = "add_tags"
    /\ last.h.event_id = Some("d2")
    /\ last.h \in handles
    /\ "tag" \notin DOMAIN last.h.source[1]
    /\ Len(last.imported) = 1
    /\ last.imported[1].index_name = "i2"
    /\ last.imported[1].event_id = "d2"
    /\ pc = "returned"
    /\ stored[HitOrder[2]] # InitialStore[HitOrder[2]]
    /\ stored[HitOrder[1]] = InitialStore[HitOrder[1]]

====
